---- MODULE Spec2Model ----
(***************************************************************************)
(* State-machine model of the streaming job engine of server.js: the job   *)
(* registry, the worker pool run by POST /api/check-job, the per-job event *)
(* log and its fan-out to the observers of GET /api/check-events, the      *)
(* cancel request and the time-to-live eviction.                           *)
(*                                                                         *)
(* One action is one run of the event loop: a request handler, or the part *)
(* of an async function between two awaits, or a timer callback.           *)
(***************************************************************************)
EXTENDS Integers, Sequences, FiniteSets, TLC

\* ------------------------------------------------------------------ bounds
MaxJobs == 1
MaxUrls == 2
MaxObservers == 2
MaxRunUrls == 3
MaxPosts == 3       \* POST /api/check-job requests one page makes

\* -------------------------------------------------------- program constants
defaultConcurrency == 5
defaultSitemapMaxDepth == 5
chunkSize == 200

JobIds == 1..MaxJobs
\* Ids a request may carry: the ids the registry may issue, and 0, which it
\* never issues (an unknown id).
RequestIds == 0..MaxJobs
Observers == 1..MaxObservers

\* ------------------------------------------------------------------- URLs
\* A URL is the sequence of its parts, the scheme prefix (when it has one)
\* first.
UrlPool == { <<"a.example">>, <<"HTTPS://", "b.example">> }

UrlLists == UNION { [1..n -> UrlPool] : n \in 0..MaxUrls }

\* The request bodies of POST /api/check-job: urls missing or not an array,
\* or an array (possibly empty).
JobBodies == { [isArray |-> FALSE, urls |-> <<>>] }
             \cup { [isArray |-> TRUE, urls |-> l] : l \in UrlLists }

\* The `concurrency` of a request body is any JSON number. Concurrency values
\* are counted in halves, so that one that is not an integer can be given:
\* -2, 0, 2, 3, 4, 6 are -1, 0 (or missing), 1, 1.5, 2, 3.
ConcurrencyInputs == {-2, 0, 2, 3, 4, 6}

\* A body whose urls is an array yet empty passes the validation.
ValidUrls_AllowEmpty(body) == body.isArray

\* !(!Array.isArray(urls) || urls.length === 0)
ValidUrls(body) == body.isArray /\ Len(body.urls) # 0

\* /^https?:\/\//i
HasHttpScheme(url) == Head(url) \in {"http://", "https://", "HTTP://", "HTTPS://"}

\* if (!/^https?:\/\//i.test(url)) url = 'http://' + url;
NormalizeUrl(url) == IF HasHttpScheme(url) THEN url ELSE <<"http://">> \o url

\* checkUrl against a deterministic network: a.example serves an HTML page,
\* a request to b.example times out, any other host answers with a content
\* type that is not HTML. Each outcome is returned as a result; none throws.
checkUrl(url) ==
  LET host == url[Len(url)] IN
  CASE host = "a.example" -> [url |-> url, status |-> 200, ok |-> TRUE, error |-> "null"]
    [] host = "b.example" -> [url |-> url, status |-> 0, ok |-> FALSE, error |-> "timeout"]
    [] OTHER -> [url |-> url, status |-> 200, ok |-> TRUE, error |-> "non-html content-type"]

\* ----------------------------------------------------------------- events
StartEvent(total) == [event |-> "start", payload |-> [total |-> total]]
ProgressEvent(index, result, processed, total) ==
  [event |-> "progress",
   payload |-> [index |-> index, result |-> result, processed |-> processed, total |-> total]]
DoneEvent(processed, total) ==
  [event |-> "done", payload |-> [processed |-> processed, total |-> total]]
FailedEvent(error) == [event |-> "failed", payload |-> [error |-> error]]

\* event === 'done' || event === 'failed'
IsTerminal(evt) == evt.event \in {"done", "failed"}

VARIABLES
  jobs,     \* the keys of the registry Map
  job,      \* the job objects ever created, by id (a closure keeps its job
            \* after the registry dropped it)
  run,      \* per job, its runStreaming call: the cursor and the workers
  obs,      \* the connections of GET /api/check-events
  resp,     \* the JSON response to the latest POST request
  nextId,   \* the next id randomUUID issues (ids are never reused)
  runCall,  \* one call of the batch runner run(urls, concurrency)
  crawl,    \* one request of GET /api/sitemap-stream
  client    \* one page of the browser client and the jobs it created

vars == <<jobs, job, run, obs, resp, nextId, runCall, crawl, client>>
jobVars == <<jobs, job, run, obs, resp, nextId>>

Created == DOMAIN job

\* new Array(n): a slot is empty (<<>>) or holds one result (<<r>>).
EmptySlot == <<>>

\* ------------------------------------------------------------- the job
\* createJob(urls)
createJob(urls) ==
  [ total |-> Len(urls),
    processed |-> 0,
    results |-> [k \in 0..(Len(urls) - 1) |-> EmptySlot],
    events |-> <<>>,
    clients |-> {},
    done |-> FALSE,
    cancelled |-> FALSE,
    cleanupTimer |-> "null",
    \* history: how often each slot was assigned, how often the timer was armed
    writes |-> [k \in 0..(Len(urls) - 1) |-> 0],
    arms |-> 0 ]

\* cleanupJob that clears the pending timer and arms none.
cleanupJob_NoArm(j) == [j EXCEPT !.cleanupTimer = "null"]

\* cleanupJob(job): clear the pending timer, arm a new one.
cleanupJob(j) == [j EXCEPT !.cleanupTimer = "armed", !.arms = @ + 1]

\* pushJobEvent that logs the start and terminal events only: a progress
\* event goes to the clients and not into the log.
pushJobEvent_NoLog(j, evt) ==
  [j EXCEPT !.events = IF evt.event = "progress" THEN @ ELSE Append(@, evt),
            !.clients = IF IsTerminal(evt) THEN {} ELSE @]

\* pushJobEvent without job.clients.clear().
pushJobEvent_NoClear(j, evt) == [j EXCEPT !.events = Append(@, evt)]

\* pushJobEvent, the job's side: append to the log; a terminal event empties
\* the fan-out set.
pushJobEvent(j, evt) ==
  [j EXCEPT !.events = Append(@, evt),
            !.clients = IF IsTerminal(evt) THEN {} ELSE @]

\* A fan-out that ends the clients' responses on a terminal event without
\* writing the event to them.
fanOut_DropTerminal(j, evt, o) ==
  [c \in Observers |->
     IF c \in j.clients
     THEN IF IsTerminal(evt) THEN [o[c] EXCEPT !.st = "ended"]
          ELSE [o[c] EXCEPT !.recv = Append(@, evt)]
     ELSE o[c]]

\* pushJobEvent, the observers' side: every client of the job is sent the
\* event; a terminal event ends its response.
fanOut(j, evt, o) ==
  [c \in Observers |->
     IF c \in j.clients
     THEN [o[c] EXCEPT !.recv = Append(@, evt),
                       !.st = IF IsTerminal(evt) THEN "ended" ELSE @]
     ELSE o[c]]

\* ------------------------------------------------------------- the pool
\* const w = Math.max(1, Math.min(concurrency, urls.length));
Max(a, b) == IF a >= b THEN a ELSE b
Min(a, b) == IF a <= b THEN a ELSE b
\* w, in halves, for a concurrency in halves and n URLs.
WorkerCount(concurrency, n) == Max(2, Min(concurrency, 2 * n))

\* for (let k = 0; k < w; k++) workers.push(worker()): the number of workers
\* started is the number of integers k >= 0 below w (w in halves).
Spawned(w) == (w + 1) \div 2

\* Number(concurrency) || defaultConcurrency, in halves
Concurrency(c) == IF c = 0 THEN 2 * defaultConcurrency ELSE c

\* A stop test that never says stop.
shouldStop_Never(j) == FALSE

\* () => job.cancelled
shouldStop(j) == j.cancelled

\* One pass of a worker's loop from its top to the await of checkUrl, with
\* the cursor at i: the worker's next position and the cursor's next value.
\* A claim that reads the cursor and leaves it where it is.
ClaimNext_NoAdvance(j, urls, i) ==
  IF shouldStop(j) THEN [w |-> [pc |-> "exited", idx |-> -1], i |-> i]
  ELSE IF i >= Len(urls) THEN [w |-> [pc |-> "exited", idx |-> -1], i |-> i]
  ELSE [w |-> [pc |-> "checkUrl", idx |-> i], i |-> i]

ClaimNext(j, urls, i) ==
  IF shouldStop(j) THEN [w |-> [pc |-> "exited", idx |-> -1], i |-> i]
  ELSE IF i >= Len(urls) THEN [w |-> [pc |-> "exited", idx |-> -1], i |-> i + 1]
  ELSE [w |-> [pc |-> "checkUrl", idx |-> i], i |-> i + 1]

\* onResult with the slot chosen by completion order, not by index.
onResult_ByCompletion(j, index, result) ==
  IF j.cancelled THEN j
  ELSE LET stored == [j EXCEPT !.results[j.processed] = <<result>>,
                               !.writes[j.processed] = @ + 1,
                               !.processed = @ + 1]
       IN pushJobEvent(stored,
                       ProgressEvent(index, result, stored.processed, stored.total))

\* onResult that stores the result and forgets to count it.
onResult_NoCount(j, index, result) ==
  IF j.cancelled THEN j
  ELSE LET stored == [j EXCEPT !.results[index] = <<result>>,
                               !.writes[index] = @ + 1]
       IN pushJobEvent(stored,
                       ProgressEvent(index, result, stored.processed, stored.total))

\* onResult that records and announces only the checks that succeeded.
onResult_SkipErrors(j, index, result) ==
  IF j.cancelled \/ result.error # "null" THEN j
  ELSE LET stored == [j EXCEPT !.results[index] = <<result>>,
                               !.writes[index] = @ + 1,
                               !.processed = @ + 1]
       IN pushJobEvent(stored,
                       ProgressEvent(index, result, stored.processed, stored.total))

\* onResult whose event carries the count before the increment.
onResult_StaleCount(j, index, result) ==
  IF j.cancelled THEN j
  ELSE LET stored == [j EXCEPT !.results[index] = <<result>>,
                               !.writes[index] = @ + 1,
                               !.processed = @ + 1]
       IN pushJobEvent(stored, ProgressEvent(index, result, j.processed, stored.total))

\* The onResult callback of /api/check-job.
onResult(j, index, result) ==
  IF j.cancelled THEN j
  ELSE LET stored == [j EXCEPT !.results[index] = <<result>>,
                               !.writes[index] = @ + 1,
                               !.processed = @ + 1]
       IN pushJobEvent(stored,
                       ProgressEvent(index, result, stored.processed, stored.total))

onResultEvent(j, index, result) ==
  ProgressEvent(index, result, j.processed + 1, j.total)

NoResponse == [op |-> "none", status |-> 0, ok |-> FALSE]

\* ------------------------------------------------- run(urls, concurrency)
RunUrlLists == UNION { [1..n -> UrlPool] : n \in 0..MaxRunUrls }

\* No call of run yet.
RunIdle == [st |-> "idle", urls |-> <<>>, i |-> 0, workers |-> <<>>, results |-> <<>>]

\* The catch branch of the worker: the result recorded when checkUrl threw.
ThrownResult(url) == [url |-> url, status |-> 0, ok |-> FALSE, error |-> "thrown"]

\* let idx = i++; if (idx >= urls.length) break;
claimIndex(urls, i) ==
  IF i >= Len(urls) THEN [w |-> [pc |-> "exited", idx |-> -1], i |-> i + 1]
  ELSE [w |-> [pc |-> "checkUrl", idx |-> i], i |-> i + 1]

\* results.push(...) in place of results[idx] = ...: the first free slot.
storeResult_Push(results, idx, result) ==
  LET free == { x \in DOMAIN results : results[x] = EmptySlot }
      first == CHOOSE x \in free : \A y \in free : x <= y
  IN [results EXCEPT ![first] = <<result>>]

\* results[idx] = await checkUrl(normalized), or the catch branch's record
storeResult(results, idx, result) == [results EXCEPT ![idx] = <<result>>]

\* ------------------------------------------------- GET /api/sitemap-stream
\* The addresses of sitemap documents. "HTTP://root" is another spelling of
\* the root's address: new URL(...).toString() turns it into "http://root/",
\* a <loc> holding it is taken as it is written.
SitemapUrls ==
  {"http://root/", "HTTP://root", "http://root/a.xml", "http://root/b.xml",
   "http://root/c.xml"}

\* req.query.url: missing, not a URL, not http(s), and two spellings of the root
RawUrls == {"", "root", "ftp://root/", "HTTP://root", "http://root/"}

\* new URL(rawUrl) succeeds and its protocol is http: or https:
IsHttpUrl(rawUrl) == rawUrl \in {"HTTP://root", "http://root/"}

\* parsed.toString()
parsedToString(rawUrl) == IF rawUrl = "HTTP://root" THEN "http://root/" ELSE rawUrl

\* A sitemap document: a <urlset> of page locations or a <sitemapindex> of
\* sitemap locations. Page URLs are numbered, p1 is 1; 0 and "" stand for a
\* <loc> that is empty once trimmed.
UrlSet(locs) == [kind |-> "urlset", pages |-> locs, sitemaps |-> <<>>]
SitemapIndex(locs) == [kind |-> "sitemapindex", pages |-> <<>>, sitemaps |-> locs]

\* The web: what each address serves; both spellings of the root serve the
\* same document.
Web(root, a, b, c) ==
  [u \in SitemapUrls |->
     CASE u \in {"http://root/", "HTTP://root"} -> root
       [] u = "http://root/a.xml" -> a
       [] u = "http://root/b.xml" -> b
       [] OTHER -> c]

Webs ==
  { \* a root with two children that share a page
    Web(SitemapIndex(<<"http://root/a.xml", "http://root/b.xml">>),
        UrlSet(<<1, 2>>), UrlSet(<<2, 3>>), UrlSet(<<>>)),
    \* a child listed twice, a grandchild shared by two children, a reference
    \* back to the root, a page listed twice in one document
    Web(SitemapIndex(<<"http://root/a.xml", "http://root/b.xml", "http://root/a.xml">>),
        SitemapIndex(<<"http://root/c.xml", "http://root/">>),
        SitemapIndex(<<"http://root/c.xml", "">>),
        UrlSet(<<1, 1, 0, 2>>)),
    \* documents that reference themselves and the root's other spelling; a
    \* chain three levels deep
    Web(SitemapIndex(<<"HTTP://root", "http://root/a.xml">>),
        SitemapIndex(<<"http://root/a.xml", "http://root/b.xml">>),
        SitemapIndex(<<"http://root/c.xml">>),
        UrlSet(<<3>>)),
    \* three children, the last one referring back to the root
    Web(SitemapIndex(<<"http://root/a.xml", "http://root/b.xml", "http://root/c.xml">>),
        UrlSet(<<1>>), UrlSet(<<1, 2>>), SitemapIndex(<<"http://root/">>)),
    \* two children whose lists are longer than a batch and overlap: each
    \* has one page more than chunkSize, and the first page of the second
    \* is the last page of the first
    Web(SitemapIndex(<<"http://root/a.xml", "http://root/b.xml">>),
        UrlSet([n \in 1..(chunkSize + 1) |-> n]),
        UrlSet([n \in 1..(chunkSize + 1) |-> n + chunkSize]),
        UrlSet(<<>>)),
    \* a child referenced by the root and, one level deeper, by its sibling
    \* that the root lists after it
    Web(SitemapIndex(<<"http://root/b.xml", "http://root/a.xml">>),
        SitemapIndex(<<"http://root/b.xml">>),
        SitemapIndex(<<"http://root/c.xml">>),
        UrlSet(<<1>>)),
    \* a root that is itself a list of pages
    Web(UrlSet(<<1, 2, 3>>), UrlSet(<<>>), UrlSet(<<>>), UrlSet(<<>>)) }

\* process.env.SITEMAP_MAX_DEPTH as a number: 0 for unset or not a number
EnvDepths == {-1, 0, 1, 2}

\* const sitemapMaxDepth = Math.max(1, Number(process.env.SITEMAP_MAX_DEPTH) || 5)
sitemapMaxDepth(env) == Max(1, IF env = 0 THEN defaultSitemapMaxDepth ELSE env)

BatchEvent(urls, total) ==
  [event |-> "batch", payload |-> [urls |-> urls, total |-> total]]
CrawlDoneEvent(total) == [event |-> "done", payload |-> [total |-> total]]

\* No request yet.
CrawlIdle ==
  [st |-> "idle",
   web |-> CHOOSE w \in Webs : w["http://root/"].kind = "urlset",
   maxDepth |-> sitemapMaxDepth(0),
   closed |-> FALSE,
   visitedSitemaps |-> {},
   seenUrls |-> {},
   queue |-> <<>>,
   total |-> 0,
   cur |-> [url |-> "", depth |-> 0],
   sent |-> <<>>,          \* what send(...) wrote to the response, in order
   resEnded |-> FALSE,     \* res.end() was called
   fetched |-> <<>>,       \* the addresses given to fetchWithTimeout, in order
   depths |-> <<>>]        \* the depth of each entry fetched, in the same order

\* parseSitemapXml: the trimmed, non-empty <loc> texts of a urlset and of a
\* sitemapindex.
parseSitemapXml(xml) ==
  [urlLocs |-> IF xml.kind = "urlset"
               THEN SelectSeq(xml.pages, LAMBDA l : l # 0) ELSE <<>>,
   sitemapLocs |-> IF xml.kind = "sitemapindex"
                   THEN SelectSeq(xml.sitemaps, LAMBDA l : l # "") ELSE <<>>]

\* A failure that is reported and does not return: the loop goes on.
RECURSIVE loopTop(_)
failCrawl_NoReturn(c, error) ==
  loopTop([c EXCEPT !.sent = Append(@, FailedEvent(error))])

\* send('failed', { error }); return res.end();
failCrawl(c, error) ==
  [c EXCEPT !.sent = Append(@, FailedEvent(error)), !.st = "ended", !.resEnded = TRUE]

\* An end of the loop that writes nothing.
finishCrawl_Silent(c) == [c EXCEPT !.st = "ended"]

\* After the loop: if (!closed) { send('done', { total }); return res.end(); }
finishCrawl(c) ==
  IF ~c.closed
  THEN [c EXCEPT !.sent = Append(@, CrawlDoneEvent(c.total)), !.st = "ended",
                 !.resEnded = TRUE]
  ELSE [c EXCEPT !.st = "ended"]

\* A loop that puts an entry already visited back at the head of the queue
\* instead of dropping it, and so never gets past it.
loopTop_SpinOnVisited(c) ==
  IF c.queue # <<>> /\ ~c.closed
  THEN LET e == Head(c.queue) IN
       IF e.url \in c.visitedSitemaps
       THEN [c EXCEPT !.st = "spin"]
       ELSE [c EXCEPT !.queue = Tail(@),
                      !.visitedSitemaps = @ \cup {e.url},
                      !.cur = e,
                      !.fetched = Append(@, e.url),
                      !.depths = Append(@, e.depth),
                      !.st = "fetch"]
  ELSE finishCrawl(c)

\* A loop that takes the entry pushed last (queue.pop()) instead of the one
\* pushed first.
RECURSIVE loopTop_Stack(_)
loopTop_Stack(c) ==
  IF c.queue # <<>> /\ ~c.closed
  THEN LET e == c.queue[Len(c.queue)]
           rest == SubSeq(c.queue, 1, Len(c.queue) - 1) IN
       IF e.url \in c.visitedSitemaps
       THEN loopTop_Stack([c EXCEPT !.queue = rest])
       ELSE [c EXCEPT !.queue = rest,
                      !.visitedSitemaps = @ \cup {e.url},
                      !.cur = e,
                      !.fetched = Append(@, e.url),
                      !.depths = Append(@, e.depth),
                      !.st = "fetch"]
  ELSE finishCrawl(c)

\* A loop that goes on whether or not the observer is connected.
RECURSIVE loopTop_IgnoreClosed(_)
loopTop_IgnoreClosed(c) ==
  IF c.queue # <<>>
  THEN LET e == Head(c.queue) IN
       IF e.url \in c.visitedSitemaps
       THEN loopTop_IgnoreClosed([c EXCEPT !.queue = Tail(@)])
       ELSE [c EXCEPT !.queue = Tail(@),
                      !.visitedSitemaps = @ \cup {e.url},
                      !.cur = e,
                      !.fetched = Append(@, e.url),
                      !.depths = Append(@, e.depth),
                      !.st = "fetch"]
  ELSE finishCrawl(c)

\* The top of the while loop, up to the await of fetchWithTimeout: entries
\* already visited are skipped.
loopTop(c) ==
  IF c.queue # <<>> /\ ~c.closed
  THEN LET e == Head(c.queue) IN
       IF e.url \in c.visitedSitemaps
       THEN loopTop([c EXCEPT !.queue = Tail(@)])
       ELSE [c EXCEPT !.queue = Tail(@),
                      !.visitedSitemaps = @ \cup {e.url},
                      !.cur = e,
                      !.fetched = Append(@, e.url),
                      !.depths = Append(@, e.depth),
                      !.st = "fetch"]
  ELSE finishCrawl(c)

\* References enqueued whatever the depth.
enqueueLocs_NoDepthCheck(queue, visited, sitemapLocs, depth, maxDepth) ==
  LET fresh == SelectSeq(sitemapLocs, LAMBDA l : l \notin visited)
  IN queue \o [n \in 1..Len(fresh) |-> [url |-> fresh[n], depth |-> depth + 1]]

\* References enqueued only when the child's depth is below maxDepth.
enqueueLocs_OffByOne(queue, visited, sitemapLocs, depth, maxDepth) ==
  IF depth + 1 < maxDepth
  THEN LET fresh == SelectSeq(sitemapLocs, LAMBDA l : l \notin visited)
       IN queue \o [n \in 1..Len(fresh) |-> [url |-> fresh[n], depth |-> depth + 1]]
  ELSE queue

\* if (depth < maxDepth) for (const loc of sitemapLocs)
\*   if (!visitedSitemaps.has(loc)) queue.push({ url: loc, depth: depth + 1 });
enqueueLocs(queue, visited, sitemapLocs, depth, maxDepth) ==
  IF depth < maxDepth
  THEN LET fresh == SelectSeq(sitemapLocs, LAMBDA l : l \notin visited)
       IN queue \o [n \in 1..Len(fresh) |-> [url |-> fresh[n], depth |-> depth + 1]]
  ELSE queue

\* Every location of a document, seen before or not.
newUrls_NoSeen(seen, urlLocs) == SelectSeq(urlLocs, LAMBDA l : l # 0)

\* The locations of a document that no document before it, and no earlier
\* entry of this one, has listed, in the order of the document. The loop
\* over urlLocs is unfolded by halves, the second half seeing in seenUrls
\* every entry of the first half, which keeps the evaluation shallow on
\* long lists.
RECURSIVE newUrls(_, _)
newUrls(seen, urlLocs) ==
  IF urlLocs = <<>> THEN <<>>
  ELSE IF Len(urlLocs) = 1
  THEN (IF urlLocs[1] = 0 \/ urlLocs[1] \in seen THEN <<>> ELSE urlLocs)
  ELSE newUrls(seen, SubSeq(urlLocs, 1, Len(urlLocs) \div 2))
       \o newUrls(seen \cup { urlLocs[n] : n \in 1..(Len(urlLocs) \div 2) },
                  SubSeq(urlLocs, Len(urlLocs) \div 2 + 1, Len(urlLocs)))

\* All the new URLs of a document in one batch, however many.
sendBatches_NoChunk(c, urls) ==
  IF urls = <<>> THEN c
  ELSE [c EXCEPT !.total = c.total + Len(urls),
                 !.sent = Append(@, BatchEvent(urls, c.total + Len(urls)))]

\* for (let i = 0; i < newUrls.length; i += chunkSize) { ... send('batch', ...) }
RECURSIVE sendBatches(_, _)
sendBatches(c, urls) ==
  IF urls = <<>> THEN c
  ELSE LET batch == SubSeq(urls, 1, Min(chunkSize, Len(urls)))
           total == c.total + Len(batch)
       IN sendBatches([c EXCEPT !.total = total,
                                !.sent = Append(@, BatchEvent(batch, total))],
                      SubSeq(urls, Len(batch) + 1, Len(urls)))

\* ------------------------------------------------ public/app.js: the page
\* The jobs of the page are numbered by the request that created them; 0
\* stands for null.
PostIds == 1..MaxPosts

\* A page just loaded: let checkSource = null; let checkJobId = null;
ClientIdle ==
  [checkJobId |-> 0,
   checkSource |-> 0,        \* the job whose EventSource is open
   posts |-> <<>>,           \* the state of each POST /api/check-job made
   srv |-> [k \in PostIds |-> "none"],   \* the job of each request at the server
   cancelSent |-> {},        \* the jobs a POST /api/check-cancel was sent for
   cancelHandled |-> {}]     \* those whose cancel request the server handled

\* if (checkSource) { checkSource.close(); checkSource = null; }
closeCheckSource(c) == [c EXCEPT !.checkSource = 0]

\* cancelCheckJob()
cancelCheckJob(c) ==
  IF c.checkJobId = 0 THEN c
  ELSE [c EXCEPT !.cancelSent = @ \cup {c.checkJobId}, !.checkJobId = 0]

\* finish(message) of listenToCheckStream, when not yet finished
finish(c) == [c EXCEPT !.checkSource = 0, !.checkJobId = 0]

\* listenToCheckStream(jobId): the open source is closed, a new one opened
listenToCheckStream(c, jobId) == [c EXCEPT !.checkSource = jobId]

JobInit ==
  /\ jobs = {}
  /\ job = <<>>
  /\ run = <<>>
  /\ obs = [o \in Observers |->
              [st |-> "idle", job |-> -1, recv |-> <<>>, hb |-> FALSE,
               lateWrite |-> FALSE]]
  /\ resp = NoResponse
  /\ nextId = 1

Init ==
  /\ JobInit
  /\ runCall = RunIdle
  /\ crawl = CrawlIdle
  /\ client = ClientIdle

\* POST /api/check-job
CheckJob(body, c) ==
  IF ~ValidUrls(body)
  THEN /\ resp' = [op |-> "check-job", status |-> 400, ok |-> FALSE]
       /\ UNCHANGED <<jobs, job, run, obs, nextId, runCall, crawl, client>>
  ELSE /\ nextId <= MaxJobs
       /\ LET urls == body.urls
              id == nextId
              started == pushJobEvent(createJob(urls), StartEvent(Len(urls)))
              w == Spawned(WorkerCount(Concurrency(c), Len(urls)))
          IN /\ jobs' = jobs \cup {id}
             /\ job' = job @@ (id :> started)
             \* the w workers run, one after the other, up to their first await
             /\ run' = run @@ (id :> [urls |-> urls,
                                      i |-> w,
                                      workers |-> [k \in 1..w |-> [pc |-> "checkUrl", idx |-> k - 1]],
                                      settled |-> FALSE])
             /\ resp' = [op |-> "check-job", status |-> 200, ok |-> TRUE]
             /\ nextId' = nextId + 1
             /\ UNCHANGED <<obs, runCall, crawl, client>>

\* A worker that, when its checkUrl returns, stores and announces the result
\* without a look at the cancellation flag, in the worker or in the callback.
CheckUrlReturns_NoStopCheck(id, k, fault) ==
  /\ id \in Created
  /\ k \in DOMAIN run[id].workers
  /\ run[id].workers[k].pc = "checkUrl"
  /\ LET idx == run[id].workers[k].idx
         result == checkUrl(NormalizeUrl(run[id].urls[idx + 1]))
         stored == [job[id] EXCEPT !.results[idx] = <<result>>,
                                   !.writes[idx] = @ + 1,
                                   !.processed = @ + 1]
         evt == ProgressEvent(idx, result, stored.processed, stored.total)
     IN /\ ~fault
        /\ run' = [run EXCEPT ![id].workers[k].pc = "onResult"]
        /\ job' = [job EXCEPT ![id] = pushJobEvent(stored, evt)]
        /\ obs' = fanOut(job[id], evt, obs)
  /\ UNCHANGED <<jobs, resp, nextId, runCall, crawl, client>>

\* A worker's checkUrl returns (lines 213-233): the stop check, then the
\* delivery, up to the await of onResult's value. An unexpected fault raised
\* by the delivery rejects the worker's promise before anything is recorded.
CheckUrlReturns(id, k, fault) ==
  /\ id \in Created
  /\ k \in DOMAIN run[id].workers
  /\ run[id].workers[k].pc = "checkUrl"
  /\ LET idx == run[id].workers[k].idx
         result == checkUrl(NormalizeUrl(run[id].urls[idx + 1]))
     IN IF shouldStop(job[id])
        THEN /\ run' = [run EXCEPT ![id].workers[k].pc = "exited"]
             /\ UNCHANGED <<job, obs>>
        ELSE IF fault
        THEN /\ run' = [run EXCEPT ![id].workers[k].pc = "rejected"]
             /\ UNCHANGED <<job, obs>>
        ELSE /\ run' = [run EXCEPT ![id].workers[k].pc = "onResult"]
             /\ job' = [job EXCEPT ![id] = onResult(@, idx, result)]
             /\ obs' = IF job[id].cancelled THEN obs
                       ELSE fanOut(job[id], onResultEvent(job[id], idx, result), obs)
  /\ UNCHANGED <<jobs, resp, nextId, runCall, crawl, client>>

\* A worker resumes after `await onResult(...)`: the top of its loop.
WorkerLoop(id, k) ==
  /\ id \in Created
  /\ k \in DOMAIN run[id].workers
  /\ run[id].workers[k].pc = "onResult"
  /\ LET nxt == ClaimNext(job[id], run[id].urls, run[id].i)
     IN run' = [run EXCEPT ![id].workers[k] = nxt.w, ![id].i = nxt.i]
  /\ UNCHANGED <<jobs, job, obs, resp, nextId, runCall, crawl, client>>

\* Promise.race in place of Promise.all: the first worker to return settles.
AllExited_Race(r) == \E k \in DOMAIN r.workers : r.workers[k].pc = "exited"

AllExited(r) == \A k \in DOMAIN r.workers : r.workers[k].pc = "exited"
SomeRejected(r) == \E k \in DOMAIN r.workers : r.workers[k].pc = "rejected"

\* The .then callback without its `if (job.done) return`.
thenHandler_NoDoneCheck(j) ==
  IF j.cancelled
  THEN cleanupJob(pushJobEvent([j EXCEPT !.done = TRUE], FailedEvent("cancelled")))
  ELSE cleanupJob(pushJobEvent([j EXCEPT !.done = TRUE], DoneEvent(j.processed, j.total)))

\* The job after the .then callback of runStreaming's promise.
thenHandler(j) ==
  IF j.done THEN j
  ELSE IF j.cancelled
  THEN cleanupJob(pushJobEvent([j EXCEPT !.done = TRUE], FailedEvent("cancelled")))
  ELSE cleanupJob(pushJobEvent([j EXCEPT !.done = TRUE], DoneEvent(j.processed, j.total)))

thenEvent(j) ==
  IF j.cancelled THEN FailedEvent("cancelled") ELSE DoneEvent(j.processed, j.total)

\* Promise.all(workers) fulfils once every worker has returned.
RunFulfilled(id) ==
  /\ id \in Created
  /\ ~run[id].settled
  /\ AllExited(run[id])
  /\ run' = [run EXCEPT ![id].settled = TRUE]
  /\ job' = [job EXCEPT ![id] = thenHandler(@)]
  /\ obs' = IF job[id].done THEN obs ELSE fanOut(job[id], thenEvent(job[id]), obs)
  /\ UNCHANGED <<jobs, resp, nextId, runCall, crawl, client>>

\* The job after the .catch callback.
catchHandler(j) ==
  IF j.done THEN j
  ELSE cleanupJob(pushJobEvent([j EXCEPT !.done = TRUE], FailedEvent("fault")))

\* Promise.all(workers) rejects as soon as one worker has thrown, whatever
\* the other workers are doing.
RunRejected(id) ==
  /\ id \in Created
  /\ ~run[id].settled
  /\ SomeRejected(run[id])
  /\ run' = [run EXCEPT ![id].settled = TRUE]
  /\ job' = [job EXCEPT ![id] = catchHandler(@)]
  /\ obs' = IF job[id].done THEN obs ELSE fanOut(job[id], FailedEvent("fault"), obs)
  /\ UNCHANGED <<jobs, resp, nextId, runCall, crawl, client>>

\* The cancel handler without `job.cancelled = true`.
cancelJob_NoFlag(j) ==
  IF ~j.done
  THEN cleanupJob(pushJobEvent([j EXCEPT !.done = TRUE], FailedEvent("cancelled")))
  ELSE j

\* A cancel handler that calls cleanupJob whether or not the job was done.
cancelJob_AlwaysCleanup(j) ==
  LET c == [j EXCEPT !.cancelled = TRUE]
  IN IF ~c.done
     THEN cleanupJob(pushJobEvent([c EXCEPT !.done = TRUE], FailedEvent("cancelled")))
     ELSE cleanupJob(c)

\* The job after POST /api/check-cancel found it.
cancelJob(j) ==
  LET c == [j EXCEPT !.cancelled = TRUE]
  IN IF ~c.done
     THEN cleanupJob(pushJobEvent([c EXCEPT !.done = TRUE], FailedEvent("cancelled")))
     ELSE c

\* An `ok` that is true only when the request made the job terminal.
cancelOk_OnlyLive(found, wasDone) == found /\ ~wasDone

\* The `ok` of the cancel response, from whether the registry holds the job
\* and whether the job was already done: { ok: false } when not found
\* (line 332), { ok: true } otherwise (line 339).
cancelOk(found, wasDone) == found

\* POST /api/check-cancel
CheckCancel(id) ==
  IF id \notin jobs
  THEN /\ resp' = [op |-> "check-cancel", status |-> 200, ok |-> cancelOk(FALSE, FALSE)]
       /\ UNCHANGED <<jobs, job, run, obs, nextId, runCall, crawl, client>>
  ELSE /\ job' = [job EXCEPT ![id] = cancelJob(@)]
       /\ obs' = IF job[id].done THEN obs
                 ELSE fanOut(job[id], FailedEvent("cancelled"), obs)
       /\ resp' = [op |-> "check-cancel", status |-> 200,
                   ok |-> cancelOk(TRUE, job[id].done)]
       /\ UNCHANGED <<jobs, run, nextId, runCall, crawl, client>>

\* GET /api/check-events on a new connection o: 404 for an id the registry
\* does not hold; otherwise the replay of the log, then the end of the
\* response (a done job) or the entry into the fan-out set.
CheckEvents(o, id) ==
  /\ obs[o].st = "idle"
  /\ IF id \notin jobs
     THEN /\ obs' = [obs EXCEPT ![o].st = "notfound", ![o].job = id]
          /\ UNCHANGED job
     ELSE IF job[id].done
     THEN /\ obs' = [obs EXCEPT ![o].st = "ended", ![o].job = id,
                                ![o].recv = @ \o job[id].events,
                                ![o].hb = FALSE]
          /\ UNCHANGED job
     ELSE /\ obs' = [obs EXCEPT ![o].st = "open", ![o].job = id,
                                ![o].recv = @ \o job[id].events,
                                ![o].hb = TRUE]
          /\ job' = [job EXCEPT ![id].clients = @ \cup {o}]
  /\ UNCHANGED <<jobs, run, resp, nextId, runCall, crawl, client>>

\* req.on('close'): the client went away, or the ended response's socket closed.
Close(o) ==
  /\ obs[o].st \in {"open", "ended"}
  /\ obs' = [obs EXCEPT ![o].st = "closed", ![o].hb = FALSE]
  /\ job' = [job EXCEPT ![obs[o].job].clients = @ \ {o}]
  /\ UNCHANGED <<jobs, run, resp, nextId, runCall, crawl, client>>

\* The heartbeat interval of a connection fires: sendSse(res, 'ping', {}).
\* A ping is no event of the job: it is neither logged nor counted among the
\* events received; one written to a response already ended is recorded.
Heartbeat(o) ==
  /\ obs[o].hb
  /\ obs' = [obs EXCEPT ![o].lateWrite = @ \/ (obs[o].st # "open")]
  /\ UNCHANGED <<jobs, job, run, resp, nextId, runCall, crawl, client>>

\* The timer cleanupJob armed fires: jobs.delete(job.id).
CleanupTimeout(id) ==
  /\ id \in Created
  /\ job[id].cleanupTimer = "armed"
  /\ jobs' = jobs \ {id}
  /\ job' = [job EXCEPT ![id].cleanupTimer = "fired"]
  /\ UNCHANGED <<run, obs, resp, nextId, runCall, crawl, client>>

\* A caller (the CLI's main, POST /api/check) calls run: the results array
\* is allocated and the w workers run, one after the other, up to their
\* first await or, on an empty list, to their return.
RunStart(urls, c) ==
  /\ runCall.st = "idle"
  /\ LET w == Spawned(WorkerCount(Concurrency(c), Len(urls)))
     IN runCall' = [st |-> "running",
                    urls |-> urls,
                    i |-> w,
                    workers |-> [k \in 1..w |-> claimIndex(urls, k - 1).w],
                    results |-> [x \in 0..(Len(urls) - 1) |-> EmptySlot]]
  /\ UNCHANGED <<jobVars, crawl, client>>

\* The checkUrl of worker k returns or throws: the result goes into the slot
\* of the worker's index and the worker claims the next index.
RunCheckUrlReturns(k, threw) ==
  /\ runCall.st = "running"
  /\ k \in DOMAIN runCall.workers
  /\ runCall.workers[k].pc = "checkUrl"
  /\ LET idx == runCall.workers[k].idx
         url == NormalizeUrl(runCall.urls[idx + 1])
         result == IF threw THEN ThrownResult(url) ELSE checkUrl(url)
         nxt == claimIndex(runCall.urls, runCall.i)
     IN runCall' = [runCall EXCEPT !.results = storeResult(@, idx, result),
                                   !.workers[k] = nxt.w,
                                   !.i = nxt.i]
  /\ UNCHANGED <<jobVars, crawl, client>>

\* await Promise.all(workers); return results;
RunReturns ==
  /\ runCall.st = "running"
  /\ AllExited(runCall)
  /\ runCall' = [runCall EXCEPT !.st = "returned"]
  /\ UNCHANGED <<jobVars, crawl, client>>

RunNext ==
  \/ \E urls \in RunUrlLists, c \in ConcurrencyInputs : RunStart(urls, c)
  \/ \E k \in 1..MaxRunUrls, threw \in BOOLEAN : RunCheckUrlReturns(k, threw)
  \/ RunReturns

RunSpec == Init /\ [][RunNext]_vars

\* The web and the environment of one crawl request.
CrawlInit ==
  /\ JobInit
  /\ runCall = RunIdle
  /\ \E w \in Webs, env \in EnvDepths :
       crawl = [CrawlIdle EXCEPT !.web = w, !.maxDepth = sitemapMaxDepth(env)]
  /\ client = ClientIdle

\* GET /api/sitemap-stream, up to the first await of the crawl loop.
SitemapStream(rawUrl) ==
  /\ crawl.st = "idle"
  /\ crawl' =
       IF rawUrl = "" THEN failCrawl(crawl, "sitemap url required")
       ELSE IF ~IsHttpUrl(rawUrl) THEN failCrawl(crawl, "invalid sitemap url")
       ELSE loopTop([crawl EXCEPT !.queue = <<[url |-> parsedToString(rawUrl), depth |-> 0]>>])
  /\ UNCHANGED <<jobVars, runCall, client>>

\* fetchWithTimeout(url) settles: it throws (network error, timeout), or
\* answers with a status that is not ok, or answers ok.
FetchReturns(outcome) ==
  /\ crawl.st = "fetch"
  /\ crawl' = CASE outcome = "throws" -> failCrawl(crawl, "fetch error")
                [] outcome = "status" -> failCrawl(crawl, "sitemap fetch failed")
                [] OTHER -> [crawl EXCEPT !.st = "text"]
  /\ UNCHANGED <<jobVars, runCall, client>>

\* resXml.text() settles: it throws (the inner catch), or the body arrives
\* and parseSitemapXml throws (the outer catch), or the document is parsed,
\* its references enqueued, its new page URLs sent in batches, and the loop
\* goes on to its next await or to its end.
TextReturns(outcome) ==
  /\ crawl.st = "text"
  /\ \/ /\ outcome = "throws"
        /\ crawl' = failCrawl(crawl, "body error")
     \/ /\ outcome = "parseThrows"
        /\ crawl' = IF ~crawl.closed THEN failCrawl(crawl, "parse error")
                    ELSE [crawl EXCEPT !.st = "ended"]
     \/ /\ outcome = "ok"
        /\ \E parsed \in {parseSitemapXml(crawl.web[crawl.cur.url])} :
           \E fresh \in {newUrls(crawl.seenUrls, parsed.urlLocs)} :
           \E c1 \in {[crawl EXCEPT
                         !.queue = enqueueLocs(@, crawl.visitedSitemaps, parsed.sitemapLocs,
                                               crawl.cur.depth, crawl.maxDepth),
                         !.seenUrls = @ \cup { fresh[n] : n \in 1..Len(fresh) }]} :
             crawl' = loopTop(sendBatches(c1, fresh))
  /\ UNCHANGED <<jobVars, runCall, client>>

\* req.on('close', () => { closed = true; }) while the handler is running
CrawlClose ==
  /\ crawl.st \in {"fetch", "text"}
  /\ ~crawl.closed
  /\ crawl' = [crawl EXCEPT !.closed = TRUE]
  /\ UNCHANGED <<jobVars, runCall, client>>

FetchOutcomes == {"ok", "status", "throws"}
TextOutcomes == {"ok", "throws", "parseThrows"}

CrawlNext ==
  \/ \E rawUrl \in RawUrls : SitemapStream(rawUrl)
  \/ \E outcome \in FetchOutcomes : FetchReturns(outcome)
  \/ \E outcome \in TextOutcomes : TextReturns(outcome)
  \/ CrawlClose

CrawlSpec == CrawlInit /\ [][CrawlNext]_vars

\* Every fetch and every read of a body settles: fetchWithTimeout aborts the
\* request when its timer fires. Requests and disconnects are the
\* environment's.
FairCrawlSpec ==
  /\ CrawlSpec
  /\ WF_vars(\E outcome \in FetchOutcomes : FetchReturns(outcome))
  /\ WF_vars(\E outcome \in TextOutcomes : TextReturns(outcome))

\* startCheck(lines) with lines not empty, up to its await of postJson.
StartCheck ==
  /\ Len(client.posts) < MaxPosts
  /\ client' = [cancelCheckJob(closeCheckSource(client)) EXCEPT
                  !.posts = Append(@, "sent")]
  /\ UNCHANGED <<jobVars, runCall, crawl>>

\* The server handles POST /api/check-job: the job exists and runs, the
\* response is on its way.
CheckJobHandled(k) ==
  /\ k \in 1..Len(client.posts)
  /\ client.posts[k] = "sent"
  /\ client' = [client EXCEPT !.posts[k] = "answered", !.srv[k] = "running"]
  /\ UNCHANGED <<jobVars, runCall, crawl>>

\* The request is rejected (400, 500) or never reaches the server: postJson
\* throws and the catch of startCheck shows the error.
PostThrows(k) ==
  /\ k \in 1..Len(client.posts)
  /\ client.posts[k] = "sent"
  /\ client' = [client EXCEPT !.posts[k] = "failed"]
  /\ UNCHANGED <<jobVars, runCall, crawl>>

\* startCheck after its await: checkJobId = json.jobId; listenToCheckStream(...)
PostReturns(k) ==
  /\ k \in 1..Len(client.posts)
  /\ client.posts[k] = "answered"
  /\ client' = [listenToCheckStream([client EXCEPT !.checkJobId = k], k) EXCEPT
                  !.posts[k] = "settled"]
  /\ UNCHANGED <<jobVars, runCall, crawl>>

\* The click handler of the clear button.
Clear ==
  /\ client' = cancelCheckJob(closeCheckSource(client))
  /\ UNCHANGED <<jobVars, runCall, crawl>>

\* The server handles POST /api/check-cancel for a job of the page.
CheckCancelHandled(k) ==
  /\ k \in client.cancelSent \ client.cancelHandled
  /\ client' = [client EXCEPT
                  !.cancelHandled = @ \cup {k},
                  !.srv[k] = IF @ = "running" THEN "cancelled" ELSE @]
  /\ UNCHANGED <<jobVars, runCall, crawl>>

\* A job of the page runs to its end at the server.
JobDone(k) ==
  /\ client.srv[k] = "running"
  /\ client' = [client EXCEPT !.srv[k] = "done"]
  /\ UNCHANGED <<jobVars, runCall, crawl>>

\* The open source delivers done or failed: the listener calls finish.
StreamTerminal(k) ==
  /\ client.checkSource = k
  /\ client.srv[k] \in {"done", "cancelled"}
  /\ client' = finish(client)
  /\ UNCHANGED <<jobVars, runCall, crawl>>

\* es.onerror on the open source: if (!finished) finish(...)
StreamError(k) ==
  /\ client.checkSource = k
  /\ client' = finish(client)
  /\ UNCHANGED <<jobVars, runCall, crawl>>

ClientNext ==
  \/ StartCheck
  \/ \E k \in PostIds : CheckJobHandled(k)
  \/ \E k \in PostIds : PostThrows(k)
  \/ \E k \in PostIds : PostReturns(k)
  \/ Clear
  \/ \E k \in PostIds : CheckCancelHandled(k)
  \/ \E k \in PostIds : JobDone(k)
  \/ \E k \in PostIds : StreamTerminal(k)
  \/ \E k \in PostIds : StreamError(k)

ClientSpec == Init /\ [][ClientNext]_vars

Next ==
  \/ \E body \in JobBodies, c \in ConcurrencyInputs : CheckJob(body, c)
  \/ \E id \in JobIds, k \in 1..MaxUrls, fault \in BOOLEAN : CheckUrlReturns(id, k, fault)
  \/ \E id \in JobIds, k \in 1..MaxUrls : WorkerLoop(id, k)
  \/ \E id \in JobIds : RunFulfilled(id)
  \/ \E id \in JobIds : RunRejected(id)
  \/ \E id \in RequestIds : CheckCancel(id)
  \/ \E o \in Observers, id \in RequestIds : CheckEvents(o, id)
  \/ \E o \in Observers : Close(o)
  \/ \E o \in Observers : Heartbeat(o)
  \/ \E id \in JobIds : CleanupTimeout(id)

Spec == Init /\ [][Next]_vars

\* The event loop runs every callback that is ready: a checkUrl always
\* returns (its own timeout bounds it), a resumed worker runs, a settled
\* promise runs its handler, an armed timer fires. Requests, disconnects and
\* heartbeats are the environment's and need not happen.
Fairness ==
  /\ \A id \in JobIds, k \in 1..MaxUrls :
       /\ WF_vars(\E fault \in BOOLEAN : CheckUrlReturns(id, k, fault))
       /\ WF_vars(WorkerLoop(id, k))
  /\ \A id \in JobIds :
       /\ WF_vars(RunFulfilled(id))
       /\ WF_vars(RunRejected(id))
       /\ WF_vars(CleanupTimeout(id))

FairSpec == Spec /\ Fairness

\* ------------------------------------------------------------------ claims
Last(q) == q[Len(q)]
TerminalAt(log) == { n \in 1..Len(log) : IsTerminal(log[n]) }
Filled(j) == { k \in DOMAIN j.results : j.results[k] # EmptySlot }

\* C1: a job's event log holds at most one terminal event (done or failed),
\* whatever the order of completion, cancel requests and a fault.
C1_AtMostOneTerminal ==
  \A id \in Created : Cardinality(TerminalAt(job[id].events)) <= 1

\* A cancelled job whose run has settled after a worker threw: the catch
\* handler and a cancel request both attempted the terminal transition.
C1_Witness ==
  \E id \in Created :
    /\ job[id].cancelled /\ run[id].settled /\ SomeRejected(run[id])
    /\ Cardinality(TerminalAt(job[id].events)) = 1

\* C2 (as claimed): the log is start, then progress entries, then at most one
\* terminal entry, which is the last entry; nothing follows the terminal event.
C2_LogShape ==
  \A id \in Created :
    LET log == job[id].events IN
    /\ Len(log) >= 1
    /\ log[1] = StartEvent(job[id].total)
    /\ \A n \in 2..Len(log) :
         \/ log[n].event = "progress"
         \/ IsTerminal(log[n]) /\ n = Len(log)

\* processed counts the filled result slots, the results array has total
\* slots, and processed is within 0..total.
C3_Counts ==
  \A id \in Created :
    /\ job[id].processed = Cardinality(Filled(job[id]))
    /\ DOMAIN job[id].results = 0..(job[id].total - 1)
    /\ job[id].processed \in 0..job[id].total

\* C3: in every state processed equals the number of filled result slots,
\* the results array has exactly total slots and processed is within
\* 0..total; and no step decreases processed.
C3_ProcessedCounts ==
  /\ []C3_Counts
  /\ [][\A id \in Created : job'[id].processed >= job[id].processed]_vars

C3_Witness ==
  \E id \in Created :
    /\ job[id].total = MaxUrls
    /\ job[id].processed = 1
    /\ Cardinality(Filled(job[id])) = 1

\* C4: a done event is in the log only once every worker has returned, and
\* then processed = total, every slot was written exactly once, and the
\* event carries processed = total.
C4_DoneIsComplete ==
  \A id \in Created :
    \A n \in 1..Len(job[id].events) :
      job[id].events[n].event = "done" =>
        /\ \A k \in DOMAIN run[id].workers : run[id].workers[k].pc = "exited"
        /\ job[id].processed = job[id].total
        /\ \A k \in 0..(job[id].total - 1) :
             job[id].results[k] # EmptySlot /\ job[id].writes[k] = 1
        /\ job[id].events[n].payload.processed = job[id].total
        /\ job[id].events[n].payload.total = job[id].total

C4_Witness ==
  \E id \in Created :
    /\ job[id].total = MaxUrls
    /\ Cardinality(DOMAIN run[id].workers) = 2
    /\ Last(job[id].events).event = "done"

\* C5: slot i, and the progress event with index i, hold the result of
\* checking input URL i after normalization: an http(s) URL that ends with
\* the input, with the outcome of the Fetcher for it.
IsSuffix(a, b) ==
  Len(a) <= Len(b) /\ SubSeq(b, Len(b) - Len(a) + 1, Len(b)) = a

ResultOfUrl(r, url) ==
  /\ HasHttpScheme(r.url)
  /\ IsSuffix(url, r.url)
  /\ Len(r.url) = (IF HasHttpScheme(url) THEN Len(url) ELSE Len(url) + 1)
  /\ r = checkUrl(r.url)

C5_SlotMatchesUrl ==
  \A id \in Created :
    /\ \A k \in Filled(job[id]) :
         ResultOfUrl(job[id].results[k][1], run[id].urls[k + 1])
    /\ \A n \in 1..Len(job[id].events) :
         LET e == job[id].events[n] IN
         e.event = "progress" =>
           /\ e.payload.index \in 0..(job[id].total - 1)
           /\ ResultOfUrl(e.payload.result, run[id].urls[e.payload.index + 1])
           /\ job[id].results[e.payload.index] = <<e.payload.result>>

\* Two workers, two different URLs, and the second URL delivered first.
C5_Witness ==
  \E id \in Created :
    /\ job[id].total = 2
    /\ run[id].urls[1] # run[id].urls[2]
    /\ Len(job[id].events) >= 3
    /\ job[id].events[2].event = "progress"
    /\ job[id].events[2].payload.index = 1
    /\ job[id].events[3].event = "progress"
    /\ job[id].events[3].payload.index = 0
\* C6 (as claimed): an attached observer has received the whole log, and the
\* observers of a job whose responses the server has ended (they were sent
\* the terminal event live, or attached once the job was terminal) have all
\* received the same sequence of events.
C6_SameSequence ==
  \A o \in Observers :
    /\ obs[o].st = "open" => obs[o].recv = job[obs[o].job].events
    /\ obs[o].st = "ended" =>
         \A p \in Observers :
           (obs[p].st = "ended" /\ obs[p].job = obs[o].job) => obs[p].recv = obs[o].recv

\* No progress event follows failed{error:"cancelled"} in a log.
C7_NoProgressAfterCancel ==
  \A id \in Created :
    \A n \in 1..Len(job[id].events) :
      job[id].events[n] = FailedEvent("cancelled") =>
        \A m \in (n + 1)..Len(job[id].events) : job[id].events[m].event # "progress"

\* C7: a cancel request for a job that is not yet terminal appends
\* failed{error:"cancelled"} in the same step, and no progress event ever
\* follows that event in the log, also when workers in flight return later.
C7_CancelFails ==
  /\ [][\A id \in jobs :
          (CheckCancel(id) /\ ~job[id].done) =>
            /\ job'[id].events = Append(job[id].events, FailedEvent("cancelled"))
            /\ job'[id].done /\ job'[id].cancelled]_vars
  /\ []C7_NoProgressAfterCancel

\* A job cancelled with a URL check in flight, whose worker has since come
\* back and dropped its result.
C7_Witness ==
  \E id \in Created :
    /\ Last(job[id].events) = FailedEvent("cancelled")
    /\ job[id].processed < job[id].total
    /\ \E k \in DOMAIN run[id].workers :
         run[id].workers[k].pc = "exited" /\ run[id].workers[k].idx >= 0

\* C8 (as claimed): cancelling a job that is already terminal, or an id the
\* registry does not hold, answers ok:false.
C8_CancelTerminalNotOk ==
  [][\A id \in RequestIds :
       (CheckCancel(id) /\ (id \notin jobs \/ job[id].done)) => resp'.ok = FALSE]_vars

\* C8 (amended): a cancel request is always answered without error; ok is
\* false exactly when the registry does not hold the id, and true for a job
\* it holds, also an already terminal one, whose log the request leaves as
\* it is.
C8_CancelOkIffFound ==
  [][\A id \in RequestIds :
       CheckCancel(id) =>
         /\ resp'.op = "check-cancel" /\ resp'.status = 200
         /\ resp'.ok = (id \in jobs)
         /\ (id \notin jobs \/ job[id].done) =>
              \A j \in Created : job'[j].events = job[j].events]_vars

\* A cancel request answered ok:true for a job that had run to completion.
C8_Witness ==
  /\ resp.op = "check-cancel" /\ resp.ok
  /\ \E id \in jobs : Last(job[id].events).event = "done" /\ job[id].cancelled

\* C9: an observer in the fan-out set that stays connected is eventually
\* sent the terminal event, and one whose response the server ended has the
\* terminal event among the events it received.
HasTerminal(q) == \E n \in 1..Len(q) : IsTerminal(q[n])

C9_ObserverGetsTerminal ==
  /\ \A o \in Observers :
       (obs[o].st = "open") ~>
         (obs[o].st = "closed" \/ (obs[o].st = "ended" /\ HasTerminal(obs[o].recv)))
  /\ [](\A o \in Observers : obs[o].st = "ended" => HasTerminal(obs[o].recv))

\* One observer was sent the terminal event live and one by replay.
C9_Witness ==
  \E o, p \in Observers :
    /\ obs[o].st = "ended" /\ obs[o].hb /\ HasTerminal(obs[o].recv)
    /\ obs[p].st = "ended" /\ ~obs[p].hb /\ HasTerminal(obs[p].recv)

\* A job the registry dropped is terminal and its timer has fired; only a
\* terminal job has a timer.
C10_EvictedOnlyWhenTerminal ==
  \A id \in Created :
    /\ id \notin jobs => job[id].done /\ job[id].cleanupTimer = "fired"
    /\ job[id].cleanupTimer # "null" => job[id].done
    /\ job[id].cleanupTimer = "fired" => id \notin jobs

\* C10: the registry drops a job only when the job is terminal and its timer
\* has fired, the timer is armed only on a terminal job, every terminal job
\* is eventually dropped, and an event-stream request for a dropped id is
\* answered 404.
C10_Eviction ==
  /\ []C10_EvictedOnlyWhenTerminal
  /\ \A id \in JobIds : (id \in Created /\ job[id].done) ~> (id \notin jobs)
  /\ [][\A o \in Observers, id \in Created \ jobs :
          CheckEvents(o, id) => obs'[o].st = "notfound" /\ obs'[o].recv = <<>>]_vars

\* A job dropped from the registry, an observer that saw it end, and a
\* request for its id answered 404.
C10_Witness ==
  \E id \in Created \ jobs :
    /\ job[id].cleanupTimer = "fired"
    /\ \E o \in Observers : obs[o].st = "notfound" /\ obs[o].job = id
    /\ \E p \in Observers : obs[p].job = id /\ HasTerminal(obs[p].recv)

\* C11: a create-job request whose urls is missing, not a list, or empty is
\* answered 400 and changes nothing else: the registry, the jobs (so no start
\* event), the runs (so no worker) and the id counter are as before.
C11_InvalidRejected ==
  [][\A body \in { b \in JobBodies : ~b.isArray \/ Len(b.urls) = 0 } :
       (\E c \in ConcurrencyInputs : CheckJob(body, c)) =>
         /\ resp'.op = "check-job" /\ resp'.status = 400
         /\ UNCHANGED <<jobs, job, run, obs, nextId>>]_vars

\* A request was answered 400 while a job existed, and no further job has
\* been created.
C11_Witness ==
  /\ resp.op = "check-job" /\ resp.status = 400
  /\ Created = {1} /\ nextId = 2

\* The URL checks of a run that are in flight.
InFlight(r) == { k \in DOMAIN r.workers : r.workers[k].pc = "checkUrl" }

\* C17 (as claimed): a create-job request starts exactly
\* max(1, min(concurrency, len(urls))) workers (both sides in halves), and
\* the checks in flight right after it are at most that number.
C17_WorkersStarted ==
  [][\A body \in JobBodies, c \in ConcurrencyInputs :
       (CheckJob(body, c) /\ body.isArray /\ Len(body.urls) # 0) =>
         LET bound == Max(2, Min(Concurrency(c), 2 * Len(body.urls))) IN
         /\ 2 * Cardinality(DOMAIN run'[nextId].workers) = bound
         /\ 2 * Cardinality(InFlight(run'[nextId])) <= bound]_vars

\* The indices the workers of a run hold: being checked or being delivered.
Holding(r) == { k \in DOMAIN r.workers : r.workers[k].pc \in {"checkUrl", "onResult"} }

\* No two workers hold the same index, every index held is below the
\* cursor, and no slot was written or announced more than once.
C18_NoDoubleClaim ==
  \A id \in Created :
    LET r == run[id] IN
    /\ \A k, m \in Holding(r) : r.workers[k].idx = r.workers[m].idx => k = m
    /\ \A k \in Holding(r) : r.workers[k].idx \in 0..(r.i - 1)
    /\ \A x \in DOMAIN job[id].writes : job[id].writes[x] <= 1
    /\ \A x \in DOMAIN job[id].results :
         Cardinality({ n \in 1..Len(job[id].events) :
                         /\ job[id].events[n].event = "progress"
                         /\ job[id].events[n].payload.index = x }) <= 1

C19_FailuresRecorded ==
  \A id \in Created :
    /\ \A k \in Filled(job[id]) :
         job[id].results[k][1].error =
           checkUrl(NormalizeUrl(run[id].urls[k + 1])).error
    /\ \A k \in DOMAIN run[id].workers :
         (run[id].workers[k].pc = "exited" /\ ~job[id].cancelled) =>
           run[id].i > Len(run[id].urls)
    /\ (run[id].settled /\ ~job[id].cancelled /\ ~SomeRejected(run[id])) =>
         /\ Last(job[id].events).event = "done"
         /\ \A n \in 1..Len(job[id].events) : job[id].events[n].event # "failed"
         /\ Filled(job[id]) = DOMAIN job[id].results

\* C19: a URL check that fails is recorded in the error field of the result
\* of its index and stops neither its worker nor the job: every run settles,
\* and one that settles with no cancel request and no worker that threw has
\* a result for every index and ended with done, not failed, however many
\* of the results carry an error.
C19_FailuresDoNotAbort ==
  /\ []C19_FailuresRecorded
  /\ \A id \in JobIds : (id \in Created) ~> (id \in Created /\ run[id].settled)

\* A job whose URL checks all timed out and that ended with done.
C19_Witness ==
  \E id \in Created :
    /\ job[id].total = MaxUrls
    /\ \A k \in DOMAIN job[id].results :
         /\ job[id].results[k] # EmptySlot
         /\ job[id].results[k][1].error = "timeout"
    /\ Last(job[id].events).event = "done"

IsPrefix(a, b) == Len(a) <= Len(b) /\ SubSeq(b, 1, Len(a)) = a

\* What an observer has received is a prefix of the log of its job.
C20_ReceivedIsPrefix ==
  \A o \in Observers :
    obs[o].job \in Created => IsPrefix(obs[o].recv, job[obs[o].job].events)

C16_OneResultPerUrl ==
  runCall.st = "returned" =>
    /\ AllExited(runCall)
    /\ DOMAIN runCall.results = 0..(Len(runCall.urls) - 1)
    /\ \A x \in DOMAIN runCall.results :
         /\ runCall.results[x] # EmptySlot
         /\ LET r == runCall.results[x][1]
                url == runCall.urls[x + 1]
            IN /\ HasHttpScheme(r.url)
               /\ IsSuffix(url, r.url)
               /\ Len(r.url) = (IF HasHttpScheme(url) THEN Len(url) ELSE Len(url) + 1)
               /\ r \in {checkUrl(r.url), ThrownResult(r.url)}

\* A call with three URLs and two workers has returned; the URLs differ, one
\* check timed out and one threw.
C16_Witness ==
  /\ runCall.st = "returned"
  /\ Len(runCall.urls) = MaxRunUrls
  /\ Cardinality(DOMAIN runCall.workers) = 2
  /\ runCall.urls[1] # runCall.urls[2]
  /\ \E x, y \in DOMAIN runCall.results :
       /\ runCall.results[x][1].error = "timeout"
       /\ runCall.results[y][1].error = "thrown"

NoDup(q) == \A m, n \in 1..Len(q) : q[m] = q[n] => m = n

\* The page URLs of the batch events written so far, in order.
RECURSIVE BatchUrls(_)
BatchUrls(sent) ==
  IF sent = <<>> THEN <<>>
  ELSE (IF Head(sent).event = "batch" THEN Head(sent).payload.urls ELSE <<>>)
       \o BatchUrls(Tail(sent))

\* C12: during a crawl no address is fetched twice and no page URL is in the
\* batches twice, whatever the graph: children and pages listed by several
\* documents or several times by one, references back to the root.
C12_NoRepeat ==
  /\ NoDup(crawl.fetched)
  /\ NoDup(BatchUrls(crawl.sent))

\* A finished crawl of a graph whose root lists a child twice, whose
\* children share a grandchild and refer back to the root, and whose
\* grandchild lists a page twice.
C12_Witness ==
  /\ crawl.st = "ended" /\ crawl.sent # <<>> /\ Last(crawl.sent).event = "done"
  /\ ~NoDup(crawl.web["http://root/"].sitemaps)
  /\ ~NoDup(crawl.web["http://root/c.xml"].pages)
  /\ crawl.fetched =
       <<"http://root/", "http://root/a.xml", "http://root/b.xml", "http://root/c.xml">>
  /\ BatchUrls(crawl.sent) = <<1, 2>>

Range(q) == { q[n] : n \in DOMAIN q }

\* The addresses reachable from the root through at most d references.
RECURSIVE ReachableWithin(_, _, _)
ReachableWithin(web, root, d) ==
  IF d = 0 THEN {root}
  ELSE LET prev == ReachableWithin(web, root, d - 1)
       IN prev \cup (UNION { Range(web[u].sitemaps) : u \in prev } \ {""})

\* The page URLs listed by the documents reachable within maxDepth.
ReachablePages(web, root, maxDepth) ==
  UNION { Range(web[u].pages) : u \in ReachableWithin(web, root, maxDepth) } \ {0}

\* C13: when a crawl ends with done{total}, total is the number of distinct
\* page URLs listed by the documents reachable from the root within
\* maxDepth, and the URLs of the batches are exactly those.
C13_DoneTotal ==
  (crawl.st = "ended" /\ crawl.sent # <<>> /\ Last(crawl.sent).event = "done") =>
    LET pages == ReachablePages(crawl.web, crawl.fetched[1], crawl.maxDepth) IN
    /\ Last(crawl.sent).payload.total = Cardinality(pages)
    /\ Range(BatchUrls(crawl.sent)) = pages

\* The root with children A = [p1, p2] and B = [p2, p3]: two batches whose
\* union is {p1, p2, p3}, then done{total: 3}.
C13_Witness ==
  /\ crawl.st = "ended"
  /\ crawl.web["http://root/a.xml"] = UrlSet(<<1, 2>>)
  /\ crawl.web["http://root/b.xml"] = UrlSet(<<2, 3>>)
  /\ crawl.sent = <<BatchEvent(<<1, 2>>, 2), BatchEvent(<<3>>, 3), CrawlDoneEvent(3)>>

\* What was written is batches, then at most one terminal event, which is
\* the last; a handler that has returned with its observer connected wrote
\* a terminal event and ended the response.
C14_BatchesThenTerminal ==
  /\ \A n \in 1..Len(crawl.sent) :
       \/ crawl.sent[n].event = "batch"
       \/ IsTerminal(crawl.sent[n]) /\ n = Len(crawl.sent)
  /\ (crawl.st = "ended" /\ ~crawl.closed) =>
       /\ crawl.sent # <<>> /\ IsTerminal(Last(crawl.sent))
       /\ crawl.resEnded

\* C14: a crawl whose observer stays connected writes zero or more batch
\* events and then exactly one terminal event, done or failed, never both,
\* and nothing once a terminal event is written.
C14_OneTerminal ==
  /\ []C14_BatchesThenTerminal
  /\ [][(crawl.sent # <<>> /\ IsTerminal(Last(crawl.sent))) => crawl'.sent = crawl.sent]_vars

\* Two batches and then done, the observer connected throughout.
C14_Witness ==
  /\ crawl.st = "ended" /\ ~crawl.closed
  /\ Len(crawl.sent) = 3
  /\ crawl.sent[1].event = "batch" /\ crawl.sent[2].event = "batch"
  /\ crawl.sent[3].event = "done"

\* A step in which the fetch, the read or the parse of a document fails.
CrawlFails ==
  \/ FetchReturns("status") \/ FetchReturns("throws")
  \/ TextReturns("throws") \/ TextReturns("parseThrows")

C21_TerminalHasNoClients ==
  \A id \in Created :
    job[id].done =>
      /\ job[id].clients = {}
      /\ \A o \in Observers : obs[o].job = id => obs[o].st # "open"

\* C21: whenever a job is terminal its fan-out set is empty; the step that
\* makes a job terminal sends the terminal event to every observer in the
\* set and ends its response; an observer that attaches to a terminal job is
\* sent the log, ended, and not added to the set.
C21_TerminalDetaches ==
  /\ []C21_TerminalHasNoClients
  /\ [][\A id \in Created :
          (~job[id].done /\ job'[id].done) =>
            \A o \in job[id].clients :
              /\ obs'[o].st = "ended"
              /\ obs'[o].recv = Append(obs[o].recv, Last(job'[id].events))
              /\ IsTerminal(Last(obs'[o].recv))]_vars
  /\ [][\A o \in Observers, id \in jobs :
          (CheckEvents(o, id) /\ job[id].done) =>
            /\ obs'[o].st = "ended" /\ obs'[o].recv = job[id].events
            /\ job'[id].clients = {}]_vars

\* A terminal job that had two observers attached when it ended.
C21_Witness ==
  \E id \in Created :
    /\ job[id].done /\ job[id].clients = {}
    /\ \A o \in Observers :
         /\ obs[o].job = id /\ obs[o].st = "ended" /\ obs[o].hb
         /\ obs[o].recv = job[id].events

\* The progress events of a log, in emission order.
ProgressOf(log) == SelectSeq(log, LAMBDA e : e.event = "progress")

\* C22: the processed values of a job's progress events are 1, 2, 3, ... in
\* emission order, whatever the order of their index fields, and every
\* progress event carries the job's total.
C22_ProcessedSequence ==
  \A id \in Created :
    LET prog == ProgressOf(job[id].events) IN
    \A n \in 1..Len(prog) :
      /\ prog[n].payload.processed = n
      /\ prog[n].payload.total = job[id].total

\* A job that ran to done with its progress events out of index order:
\* processed 1 with index 1, then processed 2 with index 0.
C22_Witness ==
  \E id \in Created :
    LET prog == ProgressOf(job[id].events) IN
    /\ Last(job[id].events) = DoneEvent(MaxUrls, MaxUrls)
    /\ Len(prog) = MaxUrls
    /\ prog[1].payload.index = 1 /\ prog[1].payload.processed = 1
    /\ prog[2].payload.index = 0 /\ prog[2].payload.processed = 2

\* C23: once a job's cancellation flag is set, the flag stays set and the
\* job's result slots and processed counter never change: a check that
\* returns afterwards is neither stored nor counted.
C23_FrozenAfterCancel ==
  [][\A id \in Created :
       job[id].cancelled =>
         /\ job'[id].cancelled
         /\ job'[id].results = job[id].results
         /\ job'[id].processed = job[id].processed
         /\ job'[id].writes = job[id].writes]_vars

\* A job cancelled after one of its two results was delivered; the worker of
\* the other check came back later, left with its index, and the slot of
\* that index is empty.
C23_Witness ==
  \E id \in Created :
    /\ job[id].cancelled /\ job[id].processed = 1
    /\ \E k \in DOMAIN run[id].workers :
         /\ run[id].workers[k].pc = "exited"
         /\ run[id].workers[k].idx >= 0
         /\ job[id].results[run[id].workers[k].idx] = EmptySlot

\* C24: once a job's cancellation flag is set, the cursor stays where it is
\* and no worker starts a check; the cancel request itself leaves the run,
\* with its checks in flight, as it is; and the checks in flight return,
\* every worker comes to its end and the run settles.
C24_CancelStopsClaims ==
  /\ [][\A id \in Created :
          job[id].cancelled =>
            /\ run'[id].i = run[id].i
            /\ \A k \in DOMAIN run[id].workers :
                 run'[id].workers[k].pc = "checkUrl" =>
                   run'[id].workers[k] = run[id].workers[k]]_vars
  /\ [][\A id \in RequestIds : CheckCancel(id) => run' = run]_vars
  /\ \A id \in JobIds :
       (id \in Created /\ job[id].cancelled) ~>
         (/\ id \in Created /\ run[id].settled
          /\ \A k \in DOMAIN run[id].workers :
               run[id].workers[k].pc \in {"exited", "rejected"})

\* A job cancelled with its only worker in flight on the first of two URLs:
\* the worker has returned, the run has settled, the second URL was never
\* claimed.
C24_Witness ==
  \E id \in Created :
    /\ job[id].cancelled /\ run[id].settled
    /\ Len(run[id].urls) = MaxUrls /\ run[id].i = 1
    /\ DOMAIN run[id].workers = {1}
    /\ run[id].workers[1] = [pc |-> "exited", idx |-> 0]

\* The root was fetched at depth 0, and every entry fetched or waiting in
\* the queue has a depth of at most maxDepth.
C25_DepthWithinBound ==
  /\ crawl.depths # <<>> => crawl.depths[1] = 0
  /\ \A n \in 1..Len(crawl.depths) : crawl.depths[n] \in 0..crawl.maxDepth
  /\ \A n \in 1..Len(crawl.queue) : crawl.queue[n].depth \in 1..crawl.maxDepth

\* C25: every document fetched has a depth of at most maxDepth, the root
\* having depth 0; the step that handles a document at depth maxDepth
\* enqueues none of its references and still sends its new page URLs.
C25_DepthBound ==
  /\ []C25_DepthWithinBound
  /\ [][(TextReturns("ok") /\ crawl.cur.depth = crawl.maxDepth) =>
          LET doc == crawl.web[crawl.cur.url] IN
          /\ \E n \in 0..Len(crawl.queue) :
               crawl'.queue = SubSeq(crawl.queue, n + 1, Len(crawl.queue))
          /\ BatchUrls(crawl'.sent) =
               BatchUrls(crawl.sent) \o newUrls(crawl.seenUrls, doc.pages)]_vars

\* A chain root, a.xml, b.xml, c.xml crawled with maxDepth 2: b.xml was
\* fetched at depth 2 and c.xml, which it references, never was.
C25_Witness ==
  /\ crawl.st = "ended" /\ crawl.maxDepth = 2
  /\ crawl.sent = <<CrawlDoneEvent(0)>>
  /\ Last(crawl.fetched) = "http://root/b.xml" /\ Last(crawl.depths) = crawl.maxDepth
  /\ crawl.web["http://root/b.xml"].sitemaps = <<"http://root/c.xml">>
  /\ "http://root/c.xml" \notin crawl.visitedSitemaps

\* C26: once the observer of a crawl has disconnected, no entry is taken
\* from the queue, nothing is fetched and done is never written; the
\* disconnect leaves the fetch in flight as it is, and that fetch settles
\* and the handler comes to its end.
C26_DisconnectStopsCrawl ==
  /\ [][crawl.closed =>
          /\ crawl'.closed
          /\ crawl'.fetched = crawl.fetched
          /\ SubSeq(crawl'.queue, 1, Len(crawl.queue)) = crawl.queue
          /\ \A n \in 1..Len(crawl'.sent) :
               crawl'.sent[n].event = "done" => n <= Len(crawl.sent)]_vars
  /\ [](crawl.closed => \A n \in 1..Len(crawl.sent) : crawl.sent[n].event # "done")
  /\ [][CrawlClose => crawl'.st = crawl.st /\ crawl'.cur = crawl.cur
                      /\ crawl'.queue = crawl.queue]_vars
  /\ crawl.closed ~> (crawl.st = "ended")

\* The observer went away while the first of three children was being
\* fetched: that document was still read and its page sent, the two other
\* children stayed in the queue, and no terminal event was written.
C26_Witness ==
  /\ crawl.closed /\ crawl.st = "ended"
  /\ Len(crawl.queue) = 2
  /\ crawl.fetched = <<"http://root/", "http://root/a.xml">>
  /\ crawl.sent = <<BatchEvent(<<1>>, 1)>>
  /\ ~crawl.resEnded

\* C27: every batch event carries between 1 and chunkSize URLs and its total
\* is the number of URLs of all batches up to and including it; the total
\* of done is the number of URLs of all batches, 0 when there was none.
C27_BatchSizes ==
  \A n \in 1..Len(crawl.sent) :
    LET e == crawl.sent[n]
        sofar == Len(BatchUrls(SubSeq(crawl.sent, 1, n)))
    IN /\ e.event = "batch" =>
            /\ Len(e.payload.urls) \in 1..chunkSize
            /\ e.payload.total = sofar
       /\ e.event = "done" => e.payload.total = sofar

\* Lists longer than a batch: a full batch and a batch of one from the first
\* child, a full batch of the second child's new pages, then done.
C27_Witness ==
  /\ crawl.st = "ended" /\ Len(crawl.sent) = 4
  /\ Len(crawl.sent[1].payload.urls) = chunkSize
  /\ Len(crawl.sent[2].payload.urls) = 1
  /\ Len(crawl.sent[3].payload.urls) = chunkSize
  /\ crawl.sent[3].payload.total = 2 * chunkSize + 1
  /\ crawl.sent[4] = CrawlDoneEvent(2 * chunkSize + 1)

\* C28 (as claimed): no ping, and nothing else, is written to an observer's
\* response after the response was sent the terminal event and ended.
C28_NoWriteAfterEnd ==
  \A o \in Observers : ~obs[o].lateWrite

\* C29: a cancel request for a job that is already terminal sets the
\* cancellation flag and changes nothing else of the job: its log, result
\* slots, processed counter, fan-out set and eviction timer, which is not
\* armed again, are as before; no other job and no observer is touched.
C29_CancelTerminalIsFrame ==
  [][\A id \in jobs :
       (CheckCancel(id) /\ job[id].done) =>
         /\ job' = [job EXCEPT ![id].cancelled = TRUE]
         /\ UNCHANGED <<jobs, run, obs, nextId>>]_vars

\* A job that ran to done and was then sent a cancel request: its timer was
\* armed once and is still pending.
C29_Witness ==
  \E id \in jobs :
    /\ resp = [op |-> "check-cancel", status |-> 200, ok |-> TRUE]
    /\ job[id].cancelled /\ job[id].processed = job[id].total
    /\ Last(job[id].events).event = "done"
    /\ job[id].cleanupTimer = "armed" /\ job[id].arms = 1

MinDepth(web, root, url, maxDepth) ==
  LET ds == { d \in 0..maxDepth : url \in ReachableWithin(web, root, d) }
  IN IF ds = {} THEN maxDepth + 1
     ELSE CHOOSE d \in ds : \A e \in ds : d <= e

\* C31: the queue is handled first in, first out: the depths of the
\* documents fetched never decrease, the entries waiting are in order of
\* depth and none is shallower than the document in hand; every document is
\* fetched at the smallest depth at which references lead to it from the
\* root; and a crawl that ends with done has fetched every document that is
\* within maxDepth references of the root.
C31_BreadthFirst ==
  /\ \A n \in 1..Len(crawl.depths), m \in 1..Len(crawl.depths) :
       n <= m => crawl.depths[n] <= crawl.depths[m]
  /\ \A n \in 1..Len(crawl.queue), m \in 1..Len(crawl.queue) :
       n <= m => crawl.queue[n].depth <= crawl.queue[m].depth
  /\ crawl.st \in {"fetch", "text"} =>
       \A n \in 1..Len(crawl.queue) : crawl.cur.depth <= crawl.queue[n].depth
  /\ \A n \in 1..Len(crawl.fetched) :
       crawl.depths[n] =
         MinDepth(crawl.web, crawl.fetched[1], crawl.fetched[n], crawl.maxDepth)
  /\ (crawl.st = "ended" /\ crawl.sent # <<>> /\ Last(crawl.sent).event = "done") =>
       Range(crawl.fetched) =
         ReachableWithin(crawl.web, crawl.fetched[1], crawl.maxDepth)

\* With maxDepth 2: b.xml, which a.xml references too, was fetched at depth
\* 1 before a.xml, and c.xml, which only b.xml references, at depth 2.
C31_Witness ==
  /\ crawl.st = "ended" /\ crawl.maxDepth = 2
  /\ "http://root/b.xml" \in Range(crawl.web["http://root/a.xml"].sitemaps)
  /\ crawl.fetched =
       <<"http://root/", "http://root/b.xml", "http://root/a.xml", "http://root/c.xml">>
  /\ crawl.depths = <<0, 1, 1, 2>>
  /\ crawl.sent = <<BatchEvent(<<1>>, 1), CrawlDoneEvent(1)>>

\* The jobs of the page that run at the server and that no cancel request
\* was sent for.
LiveUncancelled(c) == { k \in PostIds : c.srv[k] = "running" /\ k \notin c.cancelSent }

\* C32 (as claimed): at most one job the page created is running without a
\* cancel request having been sent for it; and when a new check is started
\* or the user clears, a cancel request has been sent for every job the
\* page created before that is still running.
C32_OneLiveJob ==
  /\ [](Cardinality(LiveUncancelled(client)) <= 1)
  /\ [][(StartCheck \/ Clear) =>
          \A k \in PostIds : client.srv[k] = "running" => k \in client'.cancelSent]_vars
====
